---- MODULE Spec2Model ----
(***************************************************************************)
(* LightManager (the connection lifecycle orchestrator) of neewerjs, with  *)
(* the NeewerLight objects it drives.                                      *)
(*                                                                         *)
(* Execution model: the Node.js event loop.  A step is one macrotask (a    *)
(* timer callback, an I/O completion, an adapter event, an external call)  *)
(* together with the continuation it resumes, or one microtask (the        *)
(* continuation of an await whose promise was settled by program code).    *)
(* Microtasks wait in the FIFO queue mq; a macrotask runs only when mq is  *)
(* empty.                                                                  *)
(*                                                                         *)
(* Every operation of the program is an operator from a state record S to  *)
(* the state record after it; an action applies one to the current state.  *)
(***************************************************************************)
EXTENDS Integers, Sequences, FiniteSets, TLC

\* ---------------------------------------------------------------- bounds
NumLights == 4          \* lights of the largest configuration
FaultBudget == 1        \* adapter faults injected where they are bounded
CmdBudget == 1          \* setCCT calls made
MaxCb == 1              \* reconnect timer callbacks of one light in flight
MaxPoll == 1            \* poll tick callbacks in flight
SigBudget == 1          \* termination signals sent to the process
MaxBrightnessIn == 150  \* largest brightness argument given to the encoder
MinTemperatureIn == 3000 \* smallest temperature argument given to the encoder
MaxTemperatureIn == 9000 \* largest temperature argument given to the encoder
MaxScans == 2           \* calls of LightScanner.scan followed in detail

\* ------------------------------------------------------ program constants
CONNECT_CONCURRENCY == 2
RETRIES == 2
DEFAULT_BRIGHTNESS == 0
DEFAULT_CCT == 5600
FALLBACK_TEMPERATURE == 0
COMMAND_PREFIX == 120
MODE_CCT == 135
MAX_BRIGHTNESS == 100
MIN_TEMPERATURE == 3200
MAX_TEMPERATURE == 8500
TEMPERATURE_SPAN == 6300
BYTE_SPAN == 53
BYTE_BASE == 32

Macs == 1..NumLights
Unlimited == 0 - 1

\* the arguments a caller of setCCT passes in this model
CmdBrightness == {50}
CmdCct == {3200}
\* the target null / 'all', and a mac address that is not configured
All == 0
UnknownMac == NumLights + 1

VARIABLES
    LIGHTS,           \* the configured lights (lightConfig.js); fixed
    lights,           \* this.lights: mac -> light object (kind "none": no entry)
    periph,           \* the adapter's peripheral of each light
    reconnectTimers,  \* this.reconnectTimers: mac -> timeout handle, 0 = no entry
    armed,            \* timeout handles of scheduleReconnect not yet fired or cleared
    activeConnects,   \* this.activeConnects
    connectQueue,     \* this.connectQueue (the tasks whose resolver is queued)
    pollPaused,       \* this.pollPaused
    activeScanPromise,\* this.activeScanPromise is set
    scansInFlight,    \* invocations of scanner.scan that have not settled
    scanWaiters,      \* callers awaiting the shared scan, creator first
    initPc,           \* position of initialize()
    tk,               \* connect tasks: startup tasks and reconnect timer callbacks
    pollTimer,        \* this.pollTimer is set
    poll,             \* the poll tick callbacks in flight
    setc,             \* the setCCT call in flight, then its outcome
    mq,               \* microtask queue
    faults,           \* adapter faults the environment may still inject
    cmds,             \* setCCT calls the environment may still make
    events,           \* the events emitted by the last step, in order
    lastStatus,       \* the snapshot carried by the last 'status' event
    shut,             \* position of shutdown()
    sigs,             \* termination signals the environment may still send
    scanner,          \* the LightScanner, the adapter's radio and its scan calls
    slots             \* timer callbacks of one light followed at the same time

vars == << LIGHTS, lights, periph, reconnectTimers, armed, activeConnects,
           connectQueue, pollPaused, activeScanPromise, scansInFlight,
           scanWaiters, initPc, tk, pollTimer, poll, setc, mq, faults, cmds,
           events, lastStatus, shut, sigs, scanner, slots >>

\* the state as one record (a step starts with no event emitted), and the
\* step to the state N
St ==
    [lights |-> lights, periph |-> periph,
     reconnectTimers |-> reconnectTimers, armed |-> armed,
     activeConnects |-> activeConnects, connectQueue |-> connectQueue,
     pollPaused |-> pollPaused, activeScanPromise |-> activeScanPromise,
     scansInFlight |-> scansInFlight, scanWaiters |-> scanWaiters,
     initPc |-> initPc, tk |-> tk, pollTimer |-> pollTimer, poll |-> poll,
     setc |-> setc, mq |-> mq, faults |-> faults, cmds |-> cmds,
     events |-> << >>, lastStatus |-> lastStatus, shut |-> shut,
     sigs |-> sigs, scanner |-> scanner]

Set(N) ==
    /\ lights' = N.lights
    /\ periph' = N.periph
    /\ reconnectTimers' = N.reconnectTimers
    /\ armed' = N.armed
    /\ activeConnects' = N.activeConnects
    /\ connectQueue' = N.connectQueue
    /\ pollPaused' = N.pollPaused
    /\ activeScanPromise' = N.activeScanPromise
    /\ scansInFlight' = N.scansInFlight
    /\ scanWaiters' = N.scanWaiters
    /\ initPc' = N.initPc
    /\ tk' = N.tk
    /\ pollTimer' = N.pollTimer
    /\ poll' = N.poll
    /\ setc' = N.setc
    /\ mq' = N.mq
    /\ faults' = N.faults
    /\ cmds' = N.cmds
    /\ events' = N.events
    /\ lastStatus' = N.lastStatus
    /\ shut' = N.shut
    /\ sigs' = N.sigs
    /\ scanner' = N.scanner
    /\ UNCHANGED << LIGHTS, slots >>

Becomes(N) == \E X \in {N} : Set(X)

\* ------------------------------------------------------------- task names
NoTask == << "none", 0, 0 >>
IT(m) == << "it", m, 0 >>
CB(m, i) == << "cb", m, i >>
InitTask == << "init", 0, 0 >>
PollTask(p) == << "poll", p, 0 >>
SetTask == << "setCCT", 0, 0 >>
ScanFinTask == << "scanFin", 0, 0 >>
ShutTask == << "shutdown", 0, 0 >>
Tasks ==
    { IT(m) : m \in Macs } \cup { CB(m, i) : m \in Macs, i \in 1..(MaxCb + 1) }
MacOf(t) == t[2]

\* a microtask: resume t with the result r of what it awaited (f: what the
\* scan found)
Job(t, r) == [t |-> t, r |-> r, f |-> {}]
ScanJob(t, r, f) == [t |-> t, r |-> r, f |-> f]
Enqueue(S, j) == [S EXCEPT !.mq = Append(@, j)]

Max(a, b) == IF a > b THEN a ELSE b
Min(X) == CHOOSE x \in X : \A y \in X : x <= y

\* the environment injects a fault
CanFault == faults # 0
Fault(S) == [S EXCEPT !.faults = IF @ > 0 THEN @ - 1 ELSE @]

\* ------------------------------------------------------------ light objects
\* the absent entry of this.lights
NoLight ==
    [kind |-> "none", connected |-> FALSE, isBusy |-> FALSE,
     bri |-> DEFAULT_BRIGHTNESS, cct |-> DEFAULT_CCT,
     hasN |-> FALSE, cpc |-> "idle", att |-> 0, cw |-> NoTask]

\* NeewerLight constructor.  hasN: the notify characteristic was found (the
\* write characteristic is found whenever connected is set by connect()).
\* cpc, att, cw: position, attempt and awaiting caller of connect().
NewLight == [NoLight EXCEPT !.kind = "real"]

\* the placeholder record initialize() stores for a light the scan missed
Placeholder == [NoLight EXCEPT !.kind = "ph"]

HasEntry(S, m) == S.lights[m].kind # "none"

\* getStatus(): one entry per configured light, from the table or the fallback
GetStatus(S) ==
    [m \in LIGHTS |->
        IF HasEntry(S, m)
        THEN [connected |-> S.lights[m].connected,
              brightness |-> S.lights[m].bri,
              temperature |-> S.lights[m].cct]
        ELSE [connected |-> FALSE, brightness |-> DEFAULT_BRIGHTNESS,
              temperature |-> FALLBACK_TEMPERATURE]]

\* getStatus(), its lights array from the configured light m on: the entries
\* in the order of the configuration
RECURSIVE StatusFrom(_, _)
StatusFrom(S, m) ==
    IF m > NumLights THEN << >>
    ELSE IF m \in LIGHTS
    THEN << [mac |-> m, connected |-> GetStatus(S)[m].connected,
             brightness |-> GetStatus(S)[m].brightness,
             temperature |-> GetStatus(S)[m].temperature] >>
         \o StatusFrom(S, m + 1)
    ELSE StatusFrom(S, m + 1)

\* a getStatus() that lists the entries of the table only
StatusLightsOfTable(S) ==
    SelectSeq(StatusFrom(S, 1), LAMBDA e : HasEntry(S, e.mac))

\* getStatus().lights
StatusLights(S) == StatusFrom(S, 1)

\* an emitter emits the event e of light m (0: of the manager)
Emit(S, e, m) == [S EXCEPT !.events = Append(@, << e, m >>)]

\* emitStatus(): the 'status' event carries what getStatus() returns
EmitStatus(S) == Emit([S EXCEPT !.lastStatus = GetStatus(S)], "status", 0)

\* the number of events e among those emitted by the last step
Emitted(e) == Cardinality({i \in DOMAIN events : events[i][1] = e})

\* --------------------------------------------------------- command encoding
\* Math.round(n / d) for d > 0: the nearest integer, a half rounds up
Round(n, d) == (2 * n + d) \div (2 * d)

\* Math.max(lo, Math.min(hi, x))
Clamp(x, lo, hi) == IF x < lo THEN lo ELSE IF x > hi THEN hi ELSE x

\* CommandBuilder.calculateChecksum(bytes): the sum of the bytes from the
\* i-th on, and the checksum
RECURSIVE SumFrom(_, _)
SumFrom(bytes, i) ==
    IF i > Len(bytes) THEN 0 ELSE bytes[i] + SumFrom(bytes, i + 1)

\* a checksum that leaves the prefix byte out of the sum
CalculateChecksumSkipsPrefix(bytes) == SumFrom(bytes, 2) % 256

CalculateChecksum(bytes) == SumFrom(bytes, 1) % 256

\* Buffer.from(array): every element is stored as one byte
BufferFrom(bytes) == [i \in DOMAIN bytes |-> bytes[i] % 256]

\* a CommandBuilder.setCCT that encodes its arguments as they come
CommandBuilderSetCCTUnclamped(b, t) ==
    LET tempByte == Round((t - MIN_TEMPERATURE) * BYTE_SPAN, TEMPERATURE_SPAN)
                    + BYTE_BASE
        command == << COMMAND_PREFIX, MODE_CCT, 2, b, tempByte >>
    IN BufferFrom(Append(command, CalculateChecksum(command)))

\* CommandBuilder.setCCT(brightness, temperature), of integer arguments
CommandBuilderSetCCT(b, t) ==
    LET brightness == Clamp(b, 0, MAX_BRIGHTNESS)
        temperature == Clamp(t, MIN_TEMPERATURE, MAX_TEMPERATURE)
        tempByte == Round((temperature - MIN_TEMPERATURE) * BYTE_SPAN,
                          TEMPERATURE_SPAN) + BYTE_BASE
        command == << COMMAND_PREFIX, MODE_CCT, 2, brightness, tempByte >>
    IN BufferFrom(Append(command, CalculateChecksum(command)))

\* a parseNotification that reads the temperature byte as hundreds of kelvin
ParseNotificationHundreds(S, m, data) ==
    IF Len(data) < 5 \/ data[1] # COMMAND_PREFIX \/ data[2] # MODE_CCT THEN S
    ELSE [S EXCEPT !.lights[m].bri = data[4], !.lights[m].cct = data[5] * 100]

\* NeewerLight.parseNotification(data) of light m, and the manager's
\* 'stateChanged' listener (emitStatus) when the values changed
ParseNotification(S, m, data) ==
    IF Len(data) < 5 \/ data[1] # COMMAND_PREFIX \/ data[2] # MODE_CCT THEN S
    ELSE LET brightness == data[4]
             temperature == Round((data[5] - BYTE_BASE) * TEMPERATURE_SPAN,
                                  BYTE_SPAN) + MIN_TEMPERATURE
             changed == \/ S.lights[m].bri # brightness
                        \/ S.lights[m].cct # temperature
             S1 == [S EXCEPT !.lights[m].bri = brightness,
                             !.lights[m].cct = temperature]
         IN IF changed THEN EmitStatus(Emit(S1, "stateChanged", m)) ELSE S1

\* ------------------------------------------------------- reconnect scheduler
\* a scheduleReconnect that arms the new timeout without clearing the one
\* stored for mac
ScheduleReconnectNoClear(S, m) ==
    LET fresh == Min({i \in 1..(Cardinality(S.armed[m]) + 2) :
                        i \notin S.armed[m] /\ i # S.reconnectTimers[m]})
    IN [S EXCEPT !.reconnectTimers[m] = fresh,
                 !.armed[m] = @ \cup {fresh}]

\* scheduleReconnect(mac), its synchronous part: clear the handle stored for
\* mac, arm a new timeout and store its handle (a handle setTimeout has not
\* returned before among the live ones)
ScheduleReconnect(S, m) ==
    LET existing == S.reconnectTimers[m]
        cleared == IF existing # 0 THEN S.armed[m] \ {existing} ELSE S.armed[m]
        fresh == Min({i \in 1..(Cardinality(cleared) + 2) :
                        i \notin cleared /\ i # existing})
    IN [S EXCEPT !.reconnectTimers[m] = fresh,
                 !.armed[m] = cleared \cup {fresh}]

\* a cancellation that forgets the map entry but leaves the timeout armed
CancelReconnectNoClear(S, m) == [S EXCEPT !.reconnectTimers[m] = 0]

\* connectLight, success path: "Cancel any reconnect timer"
CancelReconnect(S, m) ==
    LET t == S.reconnectTimers[m]
    IN IF t # 0
       THEN [S EXCEPT !.reconnectTimers[m] = 0, !.armed[m] = @ \ {t}]
       ELSE S

\* ----------------------------------------------------------- admission gate
\* an acquireConnectSlot() that admits every caller at once
AcquireConnectSlotNoLimit(S, t) ==
    Enqueue([S EXCEPT !.activeConnects = @ + 1, !.pollPaused = TRUE,
                      !.tk[t] = "acquired"],
            Job(t, "ok"))

\* acquireConnectSlot() up to its first suspension, called by task t: with a
\* permit the caller resumes on the next microtask, without one its resolver
\* waits in connectQueue
AcquireConnectSlot(S, t) ==
    IF S.activeConnects < CONNECT_CONCURRENCY
    THEN Enqueue([S EXCEPT !.activeConnects = @ + 1, !.pollPaused = TRUE,
                           !.tk[t] = "acquired"],
                 Job(t, "ok"))
    ELSE [S EXCEPT !.connectQueue = Append(@, t), !.tk[t] = "queued"]

\* acquireConnectSlot() of a queued caller, after its resolver was called
AcquireResume(S, t) ==
    Enqueue([S EXCEPT !.activeConnects = @ + 1, !.pollPaused = TRUE,
                      !.tk[t] = "acquired"],
            Job(t, "ok"))

\* a releaseConnectSlot() that resumes the caller that queued last
ReleaseConnectSlotNewestFirst(S) ==
    LET a == Max(0, S.activeConnects - 1)
        S1 == [S EXCEPT !.activeConnects = a,
                        !.pollPaused = IF a = 0 /\ ~S.activeScanPromise
                                       THEN FALSE ELSE @]
        n == Len(S.connectQueue)
    IN IF n = 0 THEN S1
       ELSE Enqueue([S1 EXCEPT !.connectQueue = SubSeq(@, 1, n - 1)],
                    Job(S.connectQueue[n], "ok"))

\* a releaseConnectSlot() that resumes polling without looking at the scan
ReleaseConnectSlotIgnoresScan(S) ==
    LET a == Max(0, S.activeConnects - 1)
        S1 == [S EXCEPT !.activeConnects = a,
                        !.pollPaused = IF a = 0 THEN FALSE ELSE @]
    IN IF S.connectQueue = << >> THEN S1
       ELSE Enqueue([S1 EXCEPT !.connectQueue = Tail(@)],
                    Job(Head(S.connectQueue), "ok"))

\* a releaseConnectSlot() that takes the next resolver off connectQueue and
\* does not call it
ReleaseConnectSlotDropsWaiter(S) ==
    LET a == Max(0, S.activeConnects - 1)
        S1 == [S EXCEPT !.activeConnects = a,
                        !.pollPaused = IF a = 0 /\ ~S.activeScanPromise
                                       THEN FALSE ELSE @]
    IN IF S.connectQueue = << >> THEN S1
       ELSE [S1 EXCEPT !.connectQueue = Tail(@)]

\* releaseConnectSlot()
ReleaseConnectSlot(S) ==
    LET a == Max(0, S.activeConnects - 1)
        S1 == [S EXCEPT !.activeConnects = a,
                        !.pollPaused = IF a = 0 /\ ~S.activeScanPromise
                                       THEN FALSE ELSE @]
    IN IF S.connectQueue = << >> THEN S1
       ELSE Enqueue([S1 EXCEPT !.connectQueue = Tail(@)],
                    Job(Head(S.connectQueue), "ok"))

\* ------------------------------------------------------- single-flight scan
\* a getSharedScan() that starts a scan of its own for every caller
GetSharedScanNoShare(S, t) ==
    [S EXCEPT !.pollPaused = TRUE, !.activeScanPromise = TRUE,
              !.scansInFlight = @ + 1, !.scanWaiters = Append(@, t)]

\* getSharedScan(), up to its await, called by t
GetSharedScan(S, t) ==
    IF S.activeScanPromise
    THEN [S EXCEPT !.scanWaiters = Append(@, t)]
    ELSE [S EXCEPT !.pollPaused = TRUE, !.activeScanPromise = TRUE,
                   !.scansInFlight = @ + 1, !.scanWaiters = << t >>]

\* ------------------------------------------------------ the adapter's link
\* the once('disconnect') listener that initialize() and the rescan register
\* on the peripheral of m
DisconnectHandler(S, m) ==
    ScheduleReconnect(
        EmitStatus([S EXCEPT !.lights[m].connected = FALSE,
                             !.lights[m].bri = DEFAULT_BRIGHTNESS,
                             !.lights[m].cct = DEFAULT_CCT]),
        m)

\* a 'disconnected' listener that does not hand off to the scheduler
DisconnectedHandlerNoReconnect(S, m) ==
    EmitStatus([S EXCEPT !.lights[m].connected = FALSE])

\* the 'disconnected' listener that initialize() and the rescan register on
\* the light of m
DisconnectedHandler(S, m) ==
    ScheduleReconnect(EmitStatus([S EXCEPT !.lights[m].connected = FALSE]), m)

\* the link of m goes down: the peripheral reports 'disconnect' to its
\* listener, which is registered with once()
LinkDown(S, m) ==
    IF S.periph[m].state = "conn"
    THEN LET S1 == Emit([S EXCEPT !.periph[m] = [state |-> "disc", h |-> FALSE]],
                        "disconnect", m)
         IN IF S.periph[m].h THEN DisconnectHandler(S1, m) ELSE S1
    ELSE S

\* peripheral.disconnectAsync() settles with r
Disconnected(S, m, r) == IF r = "ok" THEN LinkDown(S, m) ELSE S

\* ------------------------------------------------------------------- Init
PollIdle == [pc |-> "idle", i |-> 0]

\* no setCCT call yet.  tgt, b, c: the arguments; cmd: the command built from
\* them; i: the light being written; res: the results collected; out: how
\* the call settled; ev: the 'status' events the call emitted
SetIdle ==
    [pc |-> "idle", tgt |-> All, i |-> 0, b |-> 0, c |-> 0, cmd |-> << >>,
     res |-> << >>, out |-> "none", ev |-> 0]

\* the configurations explored: one light on an adapter that may fail at any
\* time, and a fleet on an adapter that fails a bounded number of times
Configs ==
    { [L |-> {1}, f |-> Unlimited, c |-> CmdBudget, s |-> SigBudget, k |-> MaxCb],
      [L |-> {1, 2}, f |-> FaultBudget, c |-> CmdBudget, s |-> SigBudget,
       k |-> MaxCb],
      [L |-> 1..(NumLights - 1), f |-> 0, c |-> 0, s |-> 0, k |-> MaxCb] }

\* the largest fleet, on an adapter that does not fail, left alone by
\* clients and signals
FleetConfig == [L |-> Macs, f |-> 0, c |-> 0, s |-> 0, k |-> MaxCb]

\* a call of LightScanner.scan that was not made.  targets: targetMacs;
\* listening: its onDiscover is registered; timer: its duration timeout is
\* armed; result: what its promise resolved with
NoScan ==
    [pc |-> "none", targets |-> {}, listening |-> FALSE, timer |-> FALSE,
     result |-> {}]

\* LightScanner constructor, on an adapter that is not scanning
NewScanner ==
    [discoveredLights |-> {}, isScanning |-> FALSE, radio |-> FALSE,
     scans |-> [k \in 1..MaxScans |-> NoScan]]

\* shutdown() has not been called.  i: the light being disconnected
ShutIdle == [pc |-> "no", i |-> 0]

InitWith(cf) ==
    /\ LIGHTS = cf.L /\ faults = cf.f /\ cmds = cf.c /\ sigs = cf.s
    /\ slots = cf.k
    /\ lights = [m \in Macs |-> NoLight]
    /\ periph = [m \in Macs |-> [state |-> "disc", h |-> FALSE]]
    /\ reconnectTimers = [m \in Macs |-> 0]
    /\ armed = [m \in Macs |-> {}]
    /\ activeConnects = 0
    /\ connectQueue = << >>
    /\ pollPaused = FALSE
    /\ activeScanPromise = FALSE
    /\ scansInFlight = 0
    /\ scanWaiters = << >>
    /\ initPc = "new"
    /\ tk = [t \in Tasks |-> "none"]
    /\ pollTimer = FALSE
    /\ poll = [p \in 1..MaxPoll |-> PollIdle]
    /\ setc = SetIdle
    /\ mq = << >>
    /\ events = << >>
    /\ lastStatus = [m \in LIGHTS |->
                       [connected |-> FALSE, brightness |-> DEFAULT_BRIGHTNESS,
                        temperature |-> FALLBACK_TEMPERATURE]]
    /\ shut = ShutIdle
    /\ scanner = NewScanner

Init == \E cf \in Configs : InitWith(cf)

\* a macrotask runs only when no microtask is pending, in a process that
\* has not exited
MacroTask == mq = << >> /\ shut.pc # "exited"
HeadIs(t) == mq # << >> /\ Head(mq).t = t
\* the state in which the microtask at the head of mq starts
Resumed == [St EXCEPT !.mq = Tail(@)]

\* ------------------------------------------------------------ initialize()
\* initialize() up to "await this.getSharedScan(...)"
InitializeCall ==
    /\ MacroTask
    /\ initPc = "new"
    /\ Becomes(GetSharedScan([St EXCEPT !.initPc = "scan"], InitTask))

\* scanner.scan settles: it resolves with the lights it found, or rejects
\* (waitForAdapter).  The creator's continuation in getSharedScan runs first,
\* then the callers resume in the order they called.
ScanSettle(S, r, found) ==
    [S EXCEPT !.scansInFlight = @ - 1,
              !.scanWaiters = << >>,
              !.mq = << ScanJob(ScanFinTask, r, found) >> \o
                     [i \in 1..Len(S.scanWaiters) |->
                        ScanJob(S.scanWaiters[i], r, found)]]

ScanResolve ==
    /\ MacroTask
    /\ scansInFlight > 0
    /\ \E found \in SUBSET LIGHTS : Becomes(ScanSettle(St, "ok", found))

ScanReject ==
    /\ MacroTask
    /\ scansInFlight > 0
    /\ CanFault
    /\ Becomes(ScanSettle(Fault(St), "err", {}))

\* a finally block that leaves the settled promise in activeScanPromise
ScanFinallyKeepsPromise ==
    /\ HeadIs(ScanFinTask)
    /\ Becomes([Resumed EXCEPT !.pollPaused = IF activeConnects = 0
                                              THEN FALSE ELSE @])

\* getSharedScan(), the finally block of the call that started the scan
ScanFinally ==
    /\ HeadIs(ScanFinTask)
    /\ Becomes([Resumed EXCEPT !.activeScanPromise = FALSE,
                               !.pollPaused = IF activeConnects = 0
                                              THEN FALSE ELSE @])

\* initialize(), "Seed map and schedule connects", from light m on: a light
\* the scan found gets its object, its handlers and its connect task; a light
\* it missed gets a placeholder and a reconnect timer
RECURSIVE Seed(_, _, _)
Seed(S, m, found) ==
    IF m > NumLights THEN S
    ELSE IF m \notin LIGHTS THEN Seed(S, m + 1, found)
    ELSE IF m \in found
    THEN Seed([S EXCEPT !.lights[m] = NewLight, !.periph[m].h = TRUE,
                        !.tk[IT(m)] = "stagger"],
              m + 1, found)
    ELSE Seed(ScheduleReconnect([S EXCEPT !.lights[m] = Placeholder], m),
              m + 1, found)

\* an initialize() that does not await its connect tasks
InitSeedNoAwait ==
    /\ HeadIs(InitTask)
    /\ initPc = "scan"
    /\ Head(mq).r = "ok"
    /\ Becomes(Enqueue(Seed([Resumed EXCEPT !.initPc = "tasks"], 1, Head(mq).f),
                       Job(InitTask, "ok")))

\* initialize() after the startup scan resolved, up to
\* "await Promise.allSettled(tasks)"
InitSeed ==
    /\ HeadIs(InitTask)
    /\ initPc = "scan"
    /\ Head(mq).r = "ok"
    /\ LET S1 == Seed([Resumed EXCEPT !.initPc = "tasks"], 1, Head(mq).f)
       IN Becomes(IF Head(mq).f \cap LIGHTS = {}
                  THEN Enqueue(S1, Job(InitTask, "ok")) ELSE S1)

\* initialize() when the startup scan rejected: the rejection propagates
InitScanFailed ==
    /\ HeadIs(InitTask)
    /\ initPc = "scan"
    /\ Head(mq).r = "err"
    /\ Becomes([Resumed EXCEPT !.initPc = "rejected"])

\* initialize() after Promise.allSettled(tasks): emitStatus, startPolling,
\* the hourly sweep; initialize() resolves
InitFinish ==
    /\ HeadIs(InitTask)
    /\ initPc = "tasks"
    /\ Becomes(EmitStatus([Resumed EXCEPT !.initPc = "done",
                                          !.pollTimer = TRUE]))

\* ----------------------------------------------------- NeewerLight.connect()
\* connect() up to its first await, called by t: it returns at once when the
\* light is connected or busy
Connect(S, m, t) ==
    IF S.lights[m].connected \/ S.lights[m].isBusy
    THEN Enqueue(S, Job(t, "ok"))
    ELSE [S EXCEPT !.lights[m].isBusy = TRUE, !.lights[m].cpc = "conn",
                   !.lights[m].att = 1, !.lights[m].cw = t]

\* the promise of connect() settles with r: its caller, if it still awaits
\* the race with this promise, resumes
Settle(S, m, r) ==
    IF S.lights[m].cw = NoTask THEN S
    ELSE Enqueue([S EXCEPT !.lights[m].cw = NoTask], Job(S.lights[m].cw, r))

\* a success path of connect() that leaves the busy flag set
ConnectSucceedStaysBusy(S, m) ==
    Settle([S EXCEPT !.lights[m].connected = TRUE,
                     !.lights[m].cpc = "idle", !.lights[m].att = 0],
           m, "ok")

\* "this.connected = true; this.isBusy = false; return"
ConnectSucceed(S, m) ==
    Settle([S EXCEPT !.lights[m].connected = TRUE, !.lights[m].isBusy = FALSE,
                     !.lights[m].cpc = "idle", !.lights[m].att = 0],
           m, "ok")

\* the catch block of an attempt after its cleanup disconnect: the next
\* attempt after a delay, or "Failed to connect after N attempts"
ConnectRetryOrFail(S, m) ==
    IF S.lights[m].att < RETRIES
    THEN [S EXCEPT !.lights[m].cpc = "retry", !.lights[m].att = @ + 1]
    ELSE Settle([S EXCEPT !.lights[m].isBusy = FALSE, !.lights[m].cpc = "idle",
                          !.lights[m].att = 0],
                m, "err")

\* peripheral.connectAsync() resolves
ConnectAsyncDone(m) ==
    /\ MacroTask
    /\ lights[m].cpc = "conn"
    /\ Becomes([St EXCEPT !.periph[m].state = "conn",
                          !.lights[m].cpc = "disc"])

\* peripheral.connectAsync() rejects, or the connection timeout wins the race
ConnectAsyncFailed(m) ==
    /\ MacroTask
    /\ lights[m].cpc = "conn"
    /\ CanFault
    /\ Becomes([Fault(St) EXCEPT !.lights[m].cpc = "clean"])

\* discoverSomeServicesAndCharacteristicsAsync() resolves with the write
\* characteristic (w) and the notify characteristic (n) it found
DiscoverDone(m, w, n) ==
    /\ MacroTask
    /\ lights[m].cpc = "disc"
    /\ periph[m].state = "conn"
    /\ (w /\ n) \/ CanFault
    /\ LET S0 == IF w /\ n THEN St ELSE Fault(St)
           S1 == [S0 EXCEPT !.lights[m].hasN = n]
       IN Becomes(IF ~w THEN [S1 EXCEPT !.lights[m].cpc = "clean"]
                  ELSE IF n THEN [S1 EXCEPT !.lights[m].cpc = "sub"]
                  ELSE ConnectSucceed(S1, m))

\* the discovery rejects (it does when the link is down) or its timeout wins
\* the race
DiscoverFailed(m) ==
    /\ MacroTask
    /\ lights[m].cpc = "disc"
    /\ periph[m].state # "conn" \/ CanFault
    /\ Becomes([(IF periph[m].state = "conn" THEN Fault(St) ELSE St)
                   EXCEPT !.lights[m].cpc = "clean"])

\* notifyCharacteristic.subscribeAsync() settles; a failure is ignored
SubscribeDone(m) ==
    /\ MacroTask
    /\ lights[m].cpc = "sub"
    /\ Becomes(ConnectSucceed(St, m))

\* catch block of an attempt: "Clean up partial connects" settles with r
CleanupDone(m, r) ==
    /\ MacroTask
    /\ lights[m].cpc = "clean"
    /\ r = "ok" \/ CanFault
    /\ Becomes(ConnectRetryOrFail(
                 Disconnected(IF r = "ok" THEN St ELSE Fault(St), m, r), m))

\* the delay before the next attempt is over: connectAsync() again
RetryFire(m) ==
    /\ MacroTask
    /\ lights[m].cpc = "retry"
    /\ Becomes([St EXCEPT !.lights[m].cpc = "conn"])

\* ------------------------------------------------------------ connectLight
\* connectLight, failure path up to "await light.peripheral.disconnectAsync()"
ConnectLightCatch(S, t) ==
    [S EXCEPT !.lights[MacOf(t)].connected = FALSE, !.tk[t] = "clFailDisc"]

\* connectLight, the end of the failure path: emitStatus, scheduleReconnect,
\* return false
ConnectLightFalse(S, t) ==
    Enqueue(ScheduleReconnect(EmitStatus([S EXCEPT !.tk[t] = "clRet"]),
                              MacOf(t)),
            Job(t, "err"))

\* connectLight from "const connectPromise = light.connect()" to the await of
\* the race; a placeholder has no connect(), the TypeError is caught and it
\* has no peripheral to disconnect
ConnectLightTry(S, t) ==
    LET m == MacOf(t)
    IN IF S.lights[m].kind = "real"
       THEN Connect([S EXCEPT !.tk[t] = "clRace"], m, t)
       ELSE ConnectLightFalse([S EXCEPT !.lights[m].connected = FALSE], t)

\* connectLight(mac) from its entry to its first await, after the caller
\* got its permit
ConnectLight(S, t) ==
    LET m == MacOf(t)
    IN IF ~HasEntry(S, m)
       THEN Enqueue([S EXCEPT !.tk[t] = "clRet"], Job(t, "err"))
       ELSE IF S.lights[m].connected
       THEN Enqueue([S EXCEPT !.tk[t] = "clRet"], Job(t, "ok"))
       ELSE IF S.lights[m].kind = "real" /\ S.periph[m].state = "conn"
       THEN [S EXCEPT !.tk[t] = "clPreDisc"]
       ELSE ConnectLightTry(S, t)

\* startup task of m: the stagger timeout fires, then acquireConnectSlot()
StaggerFire(m) ==
    /\ MacroTask
    /\ tk[IT(m)] = "stagger"
    /\ Becomes(AcquireConnectSlot(St, IT(m)))

\* a queued caller of acquireConnectSlot() resumes
AcquireWake(t) ==
    /\ HeadIs(t)
    /\ tk[t] = "queued"
    /\ Becomes(AcquireResume(Resumed, t))

\* a task resumes with its permit and calls connectLight
ConnectLightEnter(t) ==
    /\ HeadIs(t)
    /\ tk[t] = "acquired"
    /\ Becomes(ConnectLight(Resumed, t))

\* connectLight, "peripheral already connected, cleaning up": disconnectAsync
\* settles with r; then the 400 ms wait, or (it rejected) the connect
PreDisconnectDone(t, r) ==
    /\ MacroTask
    /\ tk[t] = "clPreDisc"
    /\ r = "ok" \/ CanFault
    /\ LET S1 == Disconnected(IF r = "ok" THEN St ELSE Fault(St), MacOf(t), r)
       IN Becomes(IF r = "ok" THEN [S1 EXCEPT !.tk[t] = "clPreWait"]
                  ELSE ConnectLightTry(S1, t))

\* connectLight: the 400 ms wait is over
PreWaitFire(t) ==
    /\ MacroTask
    /\ tk[t] = "clPreWait"
    /\ Becomes(ConnectLightTry(St, t))

\* connectLight: its 25 s timeout fires while light.connect() is pending
ConnectLightTimeout(t) ==
    /\ MacroTask
    /\ tk[t] = "clRace"
    /\ lights[MacOf(t)].cw = t
    /\ CanFault
    /\ Becomes(ConnectLightCatch([Fault(St) EXCEPT !.lights[MacOf(t)].cw = NoTask],
                                 t))

\* connectLight after the race: the success path, or the failure path up to
\* its cleanup disconnect
ConnectLightRaced(t) ==
    /\ HeadIs(t)
    /\ tk[t] = "clRace"
    /\ Becomes(IF Head(mq).r = "ok"
               THEN Enqueue(CancelReconnect(
                               EmitStatus([Resumed EXCEPT !.tk[t] = "clRet"]),
                               MacOf(t)),
                            Job(t, "ok"))
               ELSE ConnectLightCatch(Resumed, t))

\* connectLight, failure path: "Force disconnect to clean up" settles with r
FailDisconnectDone(t, r) ==
    /\ MacroTask
    /\ tk[t] = "clFailDisc"
    /\ r = "ok" \/ CanFault
    /\ Becomes(ConnectLightFalse(
                 Disconnected(IF r = "ok" THEN St ELSE Fault(St), MacOf(t), r),
                 t))

\* a caller of connectLight that releases its permit only when connectLight
\* returned true
TaskReleaseOnSuccess(t) ==
    /\ HeadIs(t)
    /\ tk[t] = "clRet"
    /\ LET S0 == [Resumed EXCEPT !.tk[t] = "none"]
           S1 == IF Head(mq).r = "ok" THEN ReleaseConnectSlot(S0) ELSE S0
       IN Becomes(IF /\ t[1] = "it"
                     /\ initPc = "tasks"
                     /\ \A m \in Macs : S1.tk[IT(m)] = "none"
                  THEN Enqueue(S1, Job(InitTask, "ok")) ELSE S1)

\* the caller of connectLight resumes: finally { releaseConnectSlot() }, and
\* the task ends.  The last startup task to end settles Promise.allSettled.
TaskRelease(t) ==
    /\ HeadIs(t)
    /\ tk[t] = "clRet"
    /\ LET S1 == ReleaseConnectSlot([Resumed EXCEPT !.tk[t] = "none"])
       IN Becomes(IF /\ t[1] = "it"
                     /\ initPc = "tasks"
                     /\ \A m \in Macs : S1.tk[IT(m)] = "none"
                  THEN Enqueue(S1, Job(InitTask, "ok")) ELSE S1)

\* ---------------------------------------------------- reconnect timer callback
FreeSlots(m) == {i \in 1..slots : tk[CB(m, i)] = "none"}

\* the timeout armed by scheduleReconnect(m) fires: the callback up to its
\* first await
TimerFireIgnoresBusy(m, id) ==
    /\ MacroTask
    /\ id \in armed[m]
    /\ LET S1 == [St EXCEPT !.reconnectTimers[m] = 0, !.armed[m] = @ \ {id}]
       IN IF ~HasEntry(St, m) \/ lights[m].connected
          THEN Becomes(S1)
          ELSE /\ FreeSlots(m) # {}
               /\ LET t == CB(m, Min(FreeSlots(m)))
                  IN IF lights[m].kind = "ph"
                     THEN Becomes(GetSharedScan([S1 EXCEPT !.tk[t] = "cbScan"], t))
                     ELSE Becomes(AcquireConnectSlot(S1, t))

TimerFire(m, id) ==
    /\ MacroTask
    /\ id \in armed[m]
    /\ LET S1 == [St EXCEPT !.reconnectTimers[m] = 0, !.armed[m] = @ \ {id}]
       IN IF ~HasEntry(St, m) \/ lights[m].connected
          THEN Becomes(S1)
          ELSE IF lights[m].isBusy
          THEN Becomes(ScheduleReconnect(S1, m))
          ELSE /\ FreeSlots(m) # {}
               /\ LET t == CB(m, Min(FreeSlots(m)))
                  IN IF lights[m].kind = "ph"
                     THEN Becomes(GetSharedScan([S1 EXCEPT !.tk[t] = "cbScan"], t))
                     ELSE Becomes(AcquireConnectSlot(S1, t))

\* a callback that, given a free permit, goes on into connectLight in the
\* turn in which it replaced the record
RescanFoundConnectsAtOnce(t) ==
    /\ HeadIs(t)
    /\ tk[t] = "cbScan"
    /\ Head(mq).r = "ok"
    /\ MacOf(t) \in Head(mq).f
    /\ LET S1 == [Resumed EXCEPT !.lights[MacOf(t)] = NewLight,
                                 !.periph[MacOf(t)].h = TRUE]
       IN Becomes(IF S1.activeConnects < CONNECT_CONCURRENCY
                  THEN ConnectLight([S1 EXCEPT !.activeConnects = @ + 1,
                                               !.pollPaused = TRUE],
                                    t)
                  ELSE AcquireConnectSlot(S1, t))

\* the callback after the shared rescan found its light: replace the record,
\* wire the handlers, then acquireConnectSlot()
RescanFound(t) ==
    /\ HeadIs(t)
    /\ tk[t] = "cbScan"
    /\ Head(mq).r = "ok"
    /\ MacOf(t) \in Head(mq).f
    /\ Becomes(AcquireConnectSlot(
                 [Resumed EXCEPT !.lights[MacOf(t)] = NewLight,
                                 !.periph[MacOf(t)].h = TRUE],
                 t))

\* a callback that gives up after a rescan that missed its light
RescanMissedNoRetry(t) ==
    /\ HeadIs(t)
    /\ tk[t] = "cbScan"
    /\ Head(mq).r = "err" \/ MacOf(t) \notin Head(mq).f
    /\ Becomes([Resumed EXCEPT !.tk[t] = "none"])

\* the callback after a rescan that missed its light, or that failed
RescanMissed(t) ==
    /\ HeadIs(t)
    /\ tk[t] = "cbScan"
    /\ Head(mq).r = "err" \/ MacOf(t) \notin Head(mq).f
    /\ Becomes(ScheduleReconnect([Resumed EXCEPT !.tk[t] = "none"], MacOf(t)))

\* the hourly sweep of initialize(), from light m on
RECURSIVE Sweep(_, _)
Sweep(S, m) ==
    IF m > NumLights THEN S
    ELSE IF HasEntry(S, m) /\ ~S.lights[m].connected /\ ~S.lights[m].isBusy
    THEN Sweep(ScheduleReconnect(S, m), m + 1)
    ELSE Sweep(S, m + 1)

HourlySweep ==
    /\ MacroTask
    /\ initPc = "done"
    /\ Becomes(Sweep(St, 1))

\* ------------------------------------------------------------------ polling
\* readStatus() of light m up to its await, called by poll tick p
ReadStatus(S, p, m) ==
    IF ~S.lights[m].connected \/ ~S.lights[m].hasN
    THEN Enqueue([S EXCEPT !.poll[p] = [pc |-> "next", i |-> m]],
                 Job(PollTask(p), "ok"))
    ELSE [S EXCEPT !.poll[p] = [pc |-> "probe", i |-> m]]

\* the for loop of poll tick p, from light m on, up to its next await
RECURSIVE PollLoop(_, _, _)
PollLoop(S, p, m) ==
    IF m > NumLights THEN [S EXCEPT !.poll[p] = PollIdle]
    ELSE IF S.lights[m].kind # "real" \/ ~S.lights[m].connected
            \/ S.lights[m].isBusy
    THEN PollLoop(S, p, m + 1)
    ELSE ReadStatus(S, p, m)

\* the interval of startPolling fires
PollTick(p) ==
    /\ MacroTask
    /\ pollTimer
    /\ ~pollPaused
    /\ poll[p].pc = "idle"
    /\ \A q \in DOMAIN poll : poll[q].pc = "idle" => p <= q
    /\ Becomes(PollLoop(St, p, 1))

\* the poll tick resumes after a readStatus() that had nothing to read
PollNext(p) ==
    /\ HeadIs(PollTask(p))
    /\ Becomes(PollLoop(Resumed, p, poll[p].i + 1))

\* the probe read of poll tick p resolves
ProbeDone(p) ==
    /\ MacroTask
    /\ poll[p].pc = "probe"
    /\ periph[poll[p].i].state = "conn"
    /\ Becomes(PollLoop(St, p, poll[p].i + 1))

\* readStatus(), its catch block
ReadStatusCatch(S, m) ==
    IF S.lights[m].connected
    THEN DisconnectedHandler(
             Emit([S EXCEPT !.lights[m].connected = FALSE], "disconnected", m), m)
    ELSE S

\* the probe read of poll tick p rejects (it does when the link is down)
ProbeFailed(p) ==
    /\ MacroTask
    /\ poll[p].pc = "probe"
    /\ periph[poll[p].i].state # "conn" \/ CanFault
    /\ Becomes(PollLoop(
                 ReadStatusCatch(IF periph[poll[p].i].state = "conn"
                                 THEN Fault(St) ELSE St,
                                 poll[p].i),
                 p, poll[p].i + 1))

\* ------------------------------------------------------------------- setCCT
Outcome(m, ok, err) == [mac |-> m, success |-> ok, error |-> err]

\* setCCT resolves with the results res: its caller resumes
SetCCTReturn(S, res) ==
    Enqueue([S EXCEPT !.setc.pc = "done", !.setc.out = "resolved",
                      !.setc.res = res],
            Job(SetTask, "ok"))

\* setCCT rejects: its caller resumes in its catch block
SetCCTThrow(S) ==
    Enqueue([S EXCEPT !.setc.pc = "done", !.setc.out = "rejected"],
            Job(SetTask, "err"))

\* emitStatus() called by setCCT
SetCCTEmit(S) == EmitStatus([S EXCEPT !.setc.ev = @ + 1])

\* setCCT(null | 'all'): the for loop from light m on up to its next await,
\* then emitStatus and return
RECURSIVE SetAll(_, _)
SetAll(S, m) ==
    IF m > NumLights THEN SetCCTReturn(SetCCTEmit(S), S.setc.res)
    ELSE IF ~HasEntry(S, m) THEN SetAll(S, m + 1)
    ELSE IF S.lights[m].connected
    THEN [S EXCEPT !.setc.pc = "write", !.setc.i = m]
    ELSE SetAll([S EXCEPT !.setc.res =
                    Append(@, Outcome(m, FALSE, "Not connected"))],
                m + 1)

\* setCCT(mac): up to its await
SetOne(S, m) ==
    IF m \notin Macs \/ ~HasEntry(S, m) THEN SetCCTThrow(S)
    ELSE IF ~S.lights[m].connected THEN SetCCTThrow(S)
    ELSE [S EXCEPT !.setc.pc = "write", !.setc.i = m]

\* a client calls setCCT(tgt, b, c); index.js starts the server and calls
\* initialize() in one turn, so no call comes before initialize()
SetCCTCall(tgt, b, c) ==
    /\ MacroTask
    /\ initPc # "new"
    /\ cmds > 0
    /\ setc.pc = "idle"
    /\ LET S1 == [St EXCEPT !.cmds = @ - 1,
                            !.setc = [SetIdle EXCEPT
                                         !.tgt = tgt, !.b = b, !.c = c,
                                         !.cmd = CommandBuilderSetCCT(b, c)]]
       IN Becomes(IF tgt = All THEN SetAll(S1, 1) ELSE SetOne(S1, tgt))

\* setCCT after "await light.sendCommand(command)" resolved
SetCCTWritten(S) ==
    LET m == S.setc.i
        S1 == [S EXCEPT !.lights[m].bri = S.setc.b, !.lights[m].cct = S.setc.c]
    IN IF S.setc.tgt = All
       THEN SetAll([S1 EXCEPT !.setc.res = Append(@, Outcome(m, TRUE, ""))],
                   m + 1)
       ELSE SetCCTReturn(SetCCTEmit(S1), << Outcome(m, TRUE, "") >>)

\* a setCCT whose batch stops at the first write that fails
SetCCTWriteErrorAborts(S) == SetCCTThrow(S)

\* a setCCT that stores the new state although the write failed
SetCCTWriteErrorStoresState(S) ==
    LET m == S.setc.i
        S1 == [S EXCEPT !.lights[m].bri = S.setc.b, !.lights[m].cct = S.setc.c]
    IN IF S.setc.tgt = All
       THEN SetAll([S1 EXCEPT !.setc.res =
                       Append(@, Outcome(m, FALSE, "write failed"))],
                   m + 1)
       ELSE SetCCTThrow(S1)

\* setCCT after "await light.sendCommand(command)" rejected
SetCCTWriteError(S) ==
    IF S.setc.tgt = All
    THEN SetAll([S EXCEPT !.setc.res =
                    Append(@, Outcome(S.setc.i, FALSE, "write failed"))],
                S.setc.i + 1)
    ELSE SetCCTThrow(S)

\* characteristic.writeAsync() of sendCommand resolves
WriteDone ==
    /\ MacroTask
    /\ setc.pc = "write"
    /\ periph[setc.i].state = "conn"
    /\ Becomes(SetCCTWritten(St))

\* characteristic.writeAsync() of sendCommand rejects (it does when the link
\* is down)
WriteFailed ==
    /\ MacroTask
    /\ setc.pc = "write"
    /\ periph[setc.i].state # "conn" \/ CanFault
    /\ Becomes(SetCCTWriteError(IF periph[setc.i].state = "conn"
                                THEN Fault(St) ELSE St))

\* the caller of setCCT (WebSocketServer.handleCommand) resumes with the
\* outcome and replies to its client
SetCCTSettled ==
    /\ HeadIs(SetTask)
    /\ Becomes([Resumed EXCEPT !.setc = SetIdle])

\* ---------------------------------------------------------------- getStatus
\* a client asks for the status (or connects): the server replies with what
\* getStatus() returns
GetStatusCall ==
    /\ MacroTask
    /\ Becomes(Emit(St, "reply", 0))

\* ----------------------------------------------------------------- shutdown
\* NeewerLight.disconnect() after peripheral.disconnectAsync() settled with r
LightDisconnected(S, m, r) ==
    IF r = "ok"
    THEN [Disconnected(S, m, r) EXCEPT !.lights[m].connected = FALSE]
    ELSE S

\* shutdown(), "Clear all reconnect timers"
ClearReconnectTimers(S) ==
    [S EXCEPT !.armed = [m \in Macs |-> @[m] \ {S.reconnectTimers[m]}],
              !.reconnectTimers = [m \in Macs |-> 0]]

\* shutdown(), "Disconnect all lights": the for loop from light m on up to
\* its next await; after the last light shutdown() resolves
RECURSIVE ShutdownLoop(_, _)
ShutdownLoop(S, m) ==
    IF m > NumLights
    THEN Enqueue([S EXCEPT !.shut = [pc |-> "done", i |-> 0]],
                 Job(ShutTask, "ok"))
    ELSE IF HasEntry(S, m) /\ S.lights[m].connected
    THEN [S EXCEPT !.shut = [pc |-> "disc", i |-> m]]
    ELSE ShutdownLoop(S, m + 1)

\* shutdown() up to its first await: stopPolling, clear the timers, then the
\* loop
Shutdown(S) ==
    ShutdownLoop(ClearReconnectTimers([S EXCEPT !.pollTimer = FALSE]), 1)

\* SIGINT or SIGTERM: the handler of index.js calls shutdown()
ShutdownCall ==
    /\ MacroTask
    /\ initPc # "new"
    /\ shut.pc = "no"
    /\ sigs > 0
    /\ Becomes(Shutdown([St EXCEPT !.sigs = @ - 1]))

\* the disconnectAsync() of shutdown's light.disconnect() settles with r
ShutdownDisconnectDone(r) ==
    /\ MacroTask
    /\ shut.pc = "disc"
    /\ r = "ok" \/ CanFault
    /\ Becomes(ShutdownLoop(
                 LightDisconnected(IF r = "ok" THEN St ELSE Fault(St),
                                   shut.i, r),
                 shut.i + 1))

\* the signal handler resumes after "await lightManager.shutdown()":
\* process.exit(0)
ProcessExit ==
    /\ HeadIs(ShutTask)
    /\ Becomes([Resumed EXCEPT !.shut.pc = "exited", !.mq = << >>])

\* --------------------------------------------------------------- the adapter
\* the radio link of m drops
LinkDrop(m) ==
    /\ MacroTask
    /\ periph[m].state = "conn"
    /\ CanFault
    /\ Becomes(LinkDown(Fault(St), m))

\* ------------------------------------------------------------------- Next
Next ==
    \/ InitializeCall
    \/ ScanResolve
    \/ ScanReject
    \/ ScanFinally
    \/ InitSeed
    \/ InitScanFailed
    \/ InitFinish
    \/ \E m \in LIGHTS : ConnectAsyncDone(m)
    \/ \E m \in LIGHTS : ConnectAsyncFailed(m)
    \/ \E m \in LIGHTS, w, n \in BOOLEAN : DiscoverDone(m, w, n)
    \/ \E m \in LIGHTS : DiscoverFailed(m)
    \/ \E m \in LIGHTS : SubscribeDone(m)
    \/ \E m \in LIGHTS, r \in {"ok", "err"} : CleanupDone(m, r)
    \/ \E m \in LIGHTS : RetryFire(m)
    \/ \E m \in LIGHTS : StaggerFire(m)
    \/ \E t \in Tasks : AcquireWake(t)
    \/ \E t \in Tasks : ConnectLightEnter(t)
    \/ \E t \in Tasks, r \in {"ok", "err"} : PreDisconnectDone(t, r)
    \/ \E t \in Tasks : PreWaitFire(t)
    \/ \E t \in Tasks : ConnectLightTimeout(t)
    \/ \E t \in Tasks : ConnectLightRaced(t)
    \/ \E t \in Tasks, r \in {"ok", "err"} : FailDisconnectDone(t, r)
    \/ \E t \in Tasks : TaskRelease(t)
    \/ \E m \in LIGHTS : \E id \in armed[m] : TimerFire(m, id)
    \/ \E t \in Tasks : RescanFound(t)
    \/ \E t \in Tasks : RescanMissed(t)
    \/ HourlySweep
    \/ \E p \in 1..MaxPoll : PollTick(p)
    \/ \E p \in 1..MaxPoll : PollNext(p)
    \/ \E p \in 1..MaxPoll : ProbeDone(p)
    \/ \E p \in 1..MaxPoll : ProbeFailed(p)
    \/ \E tgt \in {All, UnknownMac} \cup LIGHTS, b \in CmdBrightness,
          c \in CmdCct : SetCCTCall(tgt, b, c)
    \/ WriteDone
    \/ WriteFailed
    \/ SetCCTSettled
    \/ GetStatusCall
    \/ ShutdownCall
    \/ \E r \in {"ok", "err"} : ShutdownDisconnectDone(r)
    \/ ProcessExit
    \/ \E m \in LIGHTS : LinkDrop(m)

Spec == Init /\ [][Next]_vars

\* ----------------------------------------- the fleet that contends for the gate
\* startup and reconnection of the largest fleet: the connect tasks and the
\* reconnect callbacks of its lights contend for the permits
InitFleet == InitWith(FleetConfig)

NextFleet ==
    \/ InitializeCall
    \/ ScanResolve
    \/ ScanFinally
    \/ InitSeed
    \/ InitFinish
    \/ \E m \in LIGHTS : ConnectAsyncDone(m)
    \/ \E m \in LIGHTS : DiscoverDone(m, TRUE, TRUE)
    \/ \E m \in LIGHTS : SubscribeDone(m)
    \/ \E m \in LIGHTS : StaggerFire(m)
    \/ \E t \in Tasks : AcquireWake(t)
    \/ \E t \in Tasks : ConnectLightEnter(t)
    \/ \E t \in Tasks : ConnectLightRaced(t)
    \/ \E t \in Tasks : TaskRelease(t)
    \/ \E m \in LIGHTS : \E id \in armed[m] : TimerFire(m, id)
    \/ \E t \in Tasks : RescanFound(t)
    \/ \E t \in Tasks : RescanMissed(t)

SpecFleet == InitFleet /\ [][NextFleet]_vars

\* ---------------------------------- the fleet with a connect that hangs
\* startup and reconnection of a fleet larger than the gate, on an adapter
\* that is slow or fails a bounded number of times
HangConfig ==
    [L |-> 1..(CONNECT_CONCURRENCY + 1), f |-> FaultBudget, c |-> 0, s |-> 0,
     k |-> MaxCb]

InitHang == InitWith(HangConfig)

NextHang ==
    \/ NextFleet
    \/ \E t \in Tasks : ConnectLightTimeout(t)
    \/ \E t \in Tasks, r \in {"ok", "err"} : FailDisconnectDone(t, r)

SpecHang == InitHang /\ [][NextHang]_vars

\* ------------------------------------- the same fleet, every permit released
\* the event loop runs the microtask at the head of the queue
Microtask == mq # << >> /\ NextHang

\* the adapter completes the step the connect sequence of m is waiting for
LinkStep(m) ==
    \/ ConnectAsyncDone(m)
    \/ DiscoverDone(m, TRUE, TRUE)
    \/ SubscribeDone(m)

\* every permit holder gets to its releaseConnectSlot(): queued microtasks
\* run, and the adapter operations a holder awaits settle whenever the event
\* loop is free again and again
HoldersRelease ==
    /\ WF_vars(Microtask)
    /\ SF_vars(\E m \in Macs : LinkStep(m))
    /\ SF_vars(\E t \in Tasks : FailDisconnectDone(t, "ok"))

SpecGate == InitHang /\ [][NextHang]_vars /\ HoldersRelease

\* --------------------------------- overlapping reconnects of one device
\* one light on an adapter that may fail at any time, with a second timer
\* callback of the light followed while the first is still running
OverlapConfig ==
    [L |-> {1}, f |-> Unlimited, c |-> 0, s |-> 0, k |-> MaxCb + 1]

InitOverlap == InitWith(OverlapConfig)

NextOverlap ==
    \/ InitializeCall
    \/ ScanResolve
    \/ ScanReject
    \/ ScanFinally
    \/ InitSeed
    \/ InitScanFailed
    \/ InitFinish
    \/ \E m \in LIGHTS : ConnectAsyncDone(m)
    \/ \E m \in LIGHTS : ConnectAsyncFailed(m)
    \/ \E m \in LIGHTS, w, n \in BOOLEAN : DiscoverDone(m, w, n)
    \/ \E m \in LIGHTS : DiscoverFailed(m)
    \/ \E m \in LIGHTS : SubscribeDone(m)
    \/ \E m \in LIGHTS, r \in {"ok", "err"} : CleanupDone(m, r)
    \/ \E m \in LIGHTS : RetryFire(m)
    \/ \E m \in LIGHTS : StaggerFire(m)
    \/ \E t \in Tasks : ConnectLightEnter(t)
    \/ \E t \in Tasks, r \in {"ok", "err"} : PreDisconnectDone(t, r)
    \/ \E t \in Tasks : PreWaitFire(t)
    \/ \E t \in Tasks : ConnectLightTimeout(t)
    \/ \E t \in Tasks : ConnectLightRaced(t)
    \/ \E t \in Tasks, r \in {"ok", "err"} : FailDisconnectDone(t, r)
    \/ \E t \in Tasks : TaskRelease(t)
    \/ \E m \in LIGHTS : \E id \in armed[m] : TimerFire(m, id)
    \/ \E t \in Tasks : RescanFound(t)
    \/ \E t \in Tasks : RescanMissed(t)
    \/ HourlySweep
    \/ \E m \in LIGHTS : LinkDrop(m)

SpecOverlap == InitOverlap /\ [][NextOverlap]_vars

\* ------------------------------------------------------ the scanner alone
\* maybeFinish() of scan k: every target address is among the lights tracked
MaybeFinishAnyTarget(S, k) ==
    /\ S.scanner.scans[k].targets # {}
    /\ S.scanner.scans[k].targets \cap S.scanner.discoveredLights # {}

MaybeFinish(S, k) ==
    /\ S.scanner.scans[k].targets # {}
    /\ S.scanner.scans[k].targets \subseteq S.scanner.discoveredLights

\* stopAndResolve() of scan k: remove its listener, stop the radio, resolve
\* with the lights tracked now (nothing happens to a settled promise)
StopAndResolve(S, k) ==
    [S EXCEPT !.scanner.radio = FALSE,
              !.scanner.isScanning = FALSE,
              !.scanner.scans[k] =
                  [@ EXCEPT !.listening = FALSE,
                            !.pc = IF @ = "run" THEN "resolved" ELSE @,
                            !.result = IF S.scanner.scans[k].pc = "run"
                                       THEN S.scanner.discoveredLights
                                       ELSE @]]

\* onDiscover of scan k for a Neewer light with address m
OnDiscover(S, k, m) ==
    LET S1 == [S EXCEPT !.scanner.discoveredLights = @ \cup {m}]
    IN IF MaybeFinish(S1, k) THEN StopAndResolve(S1, k) ELSE S1

ScanPending(k) == scanner.scans[k].pc \in {"wait", "run"}

\* scan(duration, true, targetMacs) is called (getSharedScan calls it only
\* when the scan before it has settled): up to "await this.waitForAdapter()"
ScannerScan(targets) ==
    /\ MacroTask
    /\ \A k \in 1..MaxScans : ~ScanPending(k)
    /\ \E k \in 1..MaxScans :
          /\ scanner.scans[k].pc = "none"
          /\ \A j \in 1..(k - 1) : scanner.scans[j].pc # "none"
          /\ Becomes([St EXCEPT !.scanner.scans[k] =
                         [NoScan EXCEPT !.pc = "wait", !.targets = targets]])

\* waitForAdapter() resolves: the executor of scan's promise runs
AdapterReady(k) ==
    /\ MacroTask
    /\ scanner.scans[k].pc = "wait"
    /\ Becomes([St EXCEPT !.scanner.discoveredLights = {},
                          !.scanner.isScanning = TRUE,
                          !.scanner.radio = TRUE,
                          !.scanner.scans[k].pc = "run",
                          !.scanner.scans[k].listening = TRUE,
                          !.scanner.scans[k].timer = TRUE])

\* waitForAdapter() rejects: scan rejects
AdapterFailed(k) ==
    /\ MacroTask
    /\ scanner.scans[k].pc = "wait"
    /\ CanFault
    /\ Becomes([Fault(St) EXCEPT !.scanner.scans[k].pc = "rejected"])

\* the scanning radio reports the Neewer light with address m: 'discover'
DiscoverEvent(m) ==
    /\ MacroTask
    /\ scanner.radio
    /\ \E k \in 1..MaxScans :
          /\ scanner.scans[k].listening
          /\ Becomes(OnDiscover(St, k, m))

\* the duration timeout of scan k fires
ScanTimeoutFire(k) ==
    /\ MacroTask
    /\ scanner.scans[k].timer
    /\ Becomes(StopAndResolve([St EXCEPT !.scanner.scans[k].timer = FALSE], k))

InitScanner ==
    InitWith([L |-> 1..(NumLights - 1), f |-> FaultBudget, c |-> 0, s |-> 0,
              k |-> MaxCb])

NextScanner ==
    \/ \E targets \in (SUBSET LIGHTS) \ {{}} : ScannerScan(targets)
    \/ \E k \in 1..MaxScans : AdapterReady(k)
    \/ \E k \in 1..MaxScans : AdapterFailed(k)
    \/ \E m \in Macs : DiscoverEvent(m)
    \/ \E k \in 1..MaxScans : ScanTimeoutFire(k)

SpecScanner == InitScanner /\ [][NextScanner]_vars

\* ------------------------------------------- the encoder and the decoder alone
MinBrightnessIn == 0 - 50

\* the arguments given to the encoder: every brightness with some
\* temperatures, and every temperature with some brightnesses
CodecInputs ==
    { << b, t >> : b \in MinBrightnessIn..MaxBrightnessIn,
                   t \in {MinTemperatureIn, DEFAULT_CCT, MaxTemperatureIn} }
    \cup
    { << b, t >> : b \in {MinBrightnessIn, 50, MaxBrightnessIn},
                   t \in MinTemperatureIn..MaxTemperatureIn }

\* one connected light whose notifications are subscribed, the manager
\* idle, n calls of setCCT to come and the call sc at hand
InitLinked(f, n, sc, np) ==
    /\ LIGHTS = {1} /\ faults = f /\ cmds = n /\ sigs = 0 /\ slots = MaxCb
    /\ lights = [m \in Macs |->
                   IF m = 1 THEN [NewLight EXCEPT !.connected = TRUE,
                                                  !.hasN = TRUE]
                   ELSE NoLight]
    /\ periph = [m \in Macs |->
                   IF m = 1 THEN [state |-> "conn", h |-> TRUE]
                   ELSE [state |-> "disc", h |-> FALSE]]
    /\ reconnectTimers = [m \in Macs |-> 0]
    /\ armed = [m \in Macs |-> {}]
    /\ activeConnects = 0
    /\ connectQueue = << >>
    /\ pollPaused = FALSE
    /\ activeScanPromise = FALSE
    /\ scansInFlight = 0
    /\ scanWaiters = << >>
    /\ initPc = "done"
    /\ tk = [t \in Tasks |-> "none"]
    /\ pollTimer = TRUE
    /\ poll = [p \in 1..np |-> PollIdle]
    /\ setc = sc
    /\ mq = << >>
    /\ events = << >>
    /\ lastStatus = [m \in LIGHTS |->
                       [connected |-> TRUE, brightness |-> DEFAULT_BRIGHTNESS,
                        temperature |-> DEFAULT_CCT]]
    /\ shut = ShutIdle
    /\ scanner = NewScanner

InitReady(n, sc) == InitLinked(0, n, sc, MaxPoll)

\* the light of InitReady and the arguments of the command about to be built
InitCodec ==
    \E in \in CodecInputs :
        InitReady(0, [SetIdle EXCEPT !.b = in[1], !.c = in[2]])

\* setCCT builds its command: CommandBuilder.setCCT(brightness, temperature)
BuildCommand ==
    /\ setc.cmd = << >>
    /\ Becomes([St EXCEPT !.setc.cmd = CommandBuilderSetCCT(setc.b, setc.c)])

\* the light notifies the command it was given: the 'data' listener of the
\* notify characteristic calls parseNotification
NotifyCommand ==
    /\ setc.cmd # << >>
    /\ events = << >>
    /\ Becomes(ParseNotification(Emit(St, "data", 1), 1, setc.cmd))

NextCodec == BuildCommand \/ NotifyCommand

SpecCodec == InitCodec /\ [][NextCodec]_vars

\* ------------------------------------------------- the reported state alone
\* the bytes a light may notify: a CCT frame with any brightness byte, a
\* frame of another mode, a short frame
NotifiedFrames ==
    { << COMMAND_PREFIX, MODE_CCT, 2, b, t, 0 >> :
          b \in {0, MAX_BRIGHTNESS, MAX_BRIGHTNESS + 1, 255}, t \in {BYTE_BASE, 85} }
    \cup { << COMMAND_PREFIX, 134, 2, 255, 85, 0 >>, << COMMAND_PREFIX, MODE_CCT >> }

\* the arguments given to setCCT: in range, at the limits and beyond them
StateInputs ==
    { << b, t >> : b \in {MinBrightnessIn, 0, 50, MAX_BRIGHTNESS, MaxBrightnessIn},
                   t \in {MinTemperatureIn, DEFAULT_CCT, MaxTemperatureIn} }

InitState == InitReady(CmdBudget, SetIdle)

\* the 'data' listener of the notify characteristic of light m gets data
NotifyData(m, data) ==
    /\ MacroTask
    /\ lights[m].connected /\ lights[m].hasN
    /\ events = << >>
    /\ Becomes(ParseNotification(Emit(St, "data", m), m, data))

NextState ==
    \/ \E tgt \in {All} \cup LIGHTS, in \in StateInputs :
          SetCCTCall(tgt, in[1], in[2])
    \/ WriteDone
    \/ SetCCTSettled
    \/ \E m \in LIGHTS, data \in NotifiedFrames : NotifyData(m, data)

SpecState == InitState /\ [][NextState]_vars

\* ------------------------------------------------- poll ticks that overlap
\* one connected light; a tick of the poll interval may fire while the
\* callback of the tick before it is still suspended in its probe
InitPoll == InitLinked(Unlimited, 0, SetIdle, MaxPoll + 1)

NextPoll ==
    \/ \E p \in DOMAIN poll : PollTick(p)
    \/ \E p \in DOMAIN poll : PollNext(p)
    \/ \E p \in DOMAIN poll : ProbeDone(p)
    \/ \E p \in DOMAIN poll : ProbeFailed(p)
    \/ \E m \in LIGHTS : LinkDrop(m)
    \/ \E m \in LIGHTS : \E id \in armed[m] : TimerFire(m, id)
    \/ \E t \in Tasks : ConnectLightEnter(t)
    \/ \E t \in Tasks, r \in {"ok", "err"} : PreDisconnectDone(t, r)
    \/ \E t \in Tasks : PreWaitFire(t)
    \/ \E m \in LIGHTS : ConnectAsyncDone(m)
    \/ \E m \in LIGHTS : ConnectAsyncFailed(m)
    \/ \E m \in LIGHTS, w, n \in BOOLEAN : DiscoverDone(m, w, n)
    \/ \E m \in LIGHTS : DiscoverFailed(m)
    \/ \E m \in LIGHTS : SubscribeDone(m)
    \/ \E m \in LIGHTS, r \in {"ok", "err"} : CleanupDone(m, r)
    \/ \E m \in LIGHTS : RetryFire(m)
    \/ \E t \in Tasks : ConnectLightTimeout(t)
    \/ \E t \in Tasks : ConnectLightRaced(t)
    \/ \E t \in Tasks, r \in {"ok", "err"} : FailDisconnectDone(t, r)
    \/ \E t \in Tasks : TaskRelease(t)

SpecPoll == InitPoll /\ [][NextPoll]_vars


\* ------------------------------------------------------------ observations
\* what getStatus() reports
Reported == GetStatus(St)

\* the outcomes of the finished setCCT call that are about light m
OutcomesFor(m) == {i \in DOMAIN setc.res : setc.res[i].mac = m}

TypeOK ==
    /\ activeConnects \in Nat
    /\ scansInFlight \in Nat
    /\ initPc \in {"new", "scan", "tasks", "done", "rejected"}
    /\ \A t \in Tasks : tk[t] \in {"none", "stagger", "queued", "acquired",
                                   "clPreDisc", "clPreWait", "clRace",
                                   "clFailDisc", "clRet", "cbScan"}
    /\ \A m \in Macs : lights[m].kind \in {"none", "ph", "real"}
    /\ \A m \in Macs : lights[m].cpc \in {"idle", "conn", "disc", "sub",
                                         "clean", "retry"}
    /\ \A m \in Macs \ LIGHTS : lights[m] = NoLight

\* --------------------------------------------------------------- properties
\* C1: whatever the interleaving of callers that acquire at once, callers
\* that queue and are resumed by a release, and releases, the number of
\* permits held (activeConnects) is at most CONNECT_CONCURRENCY.
C1_GateBound == activeConnects <= CONNECT_CONCURRENCY

\* the permits are all held while a release has just resumed a queued caller
\* that has not yet taken its permit back, and a third caller holds one
C1_Witness ==
    /\ mq # << >>
    /\ Head(mq).t \in Tasks
    /\ tk[Head(mq).t] = "queued"
    /\ activeConnects = CONNECT_CONCURRENCY - 1

\* C2: at most one scanner.scan is in flight at any instant; the callers of
\* getSharedScan that wait while it runs all wait for that one scan, which
\* runs with activeScanPromise set.
C2_SingleFlight ==
    /\ scansInFlight <= 1
    /\ scanWaiters # << >> => scansInFlight = 1
    /\ scansInFlight = 1 => activeScanPromise

\* two callers wait for one scan
C2_Witness == Len(scanWaiters) >= 2 /\ scansInFlight = 1

\* C3: every light has at most one armed reconnect timer, and an armed timer
\* is the one stored in reconnectTimers.
C3_OneTimer ==
    \A m \in Macs :
        /\ Cardinality(armed[m]) <= 1
        /\ armed[m] # {} => armed[m] = {reconnectTimers[m]}

\* a timer is armed for a light while a reconnect callback of that light is
\* still running
C3_Witness ==
    \E m \in Macs, i \in 1..MaxCb :
        /\ tk[CB(m, i)] # "none"
        /\ armed[m] # {}

\* C4 as stated: whenever a light goes from connected to not connected, what
\* getStatus reports for it from then on is brightness DEFAULT_BRIGHTNESS and
\* temperature DEFAULT_CCT.
C4_ResetOnDisconnect ==
    [][\A m \in LIGHTS :
          (lights[m].connected /\ ~lights'[m].connected) =>
              /\ Reported'[m].brightness = DEFAULT_BRIGHTNESS
              /\ Reported'[m].temperature = DEFAULT_CCT]_vars

\* C5: when the probe of a connected light fails in a poll tick (the light
\* emits 'disconnected'), the light is not connected after the step, its
\* reconnect timer is armed, and the step emits exactly one 'status' event.
C5_ProbeFailure ==
    [][\A m \in LIGHTS :
          (\E i \in DOMAIN events' : events'[i] = << "disconnected", m >>) =>
              /\ ~lights'[m].connected
              /\ reconnectTimers'[m] # 0
              /\ armed'[m] = {reconnectTimers'[m]}
              /\ Emitted("status")' = 1]_vars

\* a probe has just failed on a light that was connected
C5_Witness ==
    \E m \in LIGHTS :
        /\ events = << << "disconnected", m >>, << "status", 0 >> >>
        /\ ~lights[m].connected
        /\ armed[m] # {}

\* C6 as stated: a finished setCCT(null | 'all') has resolved with exactly
\* one outcome for every configured light, the 'Not connected' failure for a
\* light that was never discovered, and has emitted exactly one 'status'
\* event.
C6_OneOutcomePerLight ==
    (setc.pc = "done" /\ setc.tgt = All) =>
        /\ setc.out = "resolved"
        /\ \A m \in LIGHTS : Cardinality(OutcomesFor(m)) = 1
        /\ \A m \in LIGHTS :
              lights[m].kind # "real" =>
                  \E i \in DOMAIN setc.res :
                      setc.res[i] = Outcome(m, FALSE, "Not connected")
        /\ setc.ev = 1

C9_SecondSurvives ==
    [][\A m \in Macs :
          (/\ reconnectTimers[m] \in armed[m]
           /\ reconnectTimers'[m] # 0
           /\ reconnectTimers'[m] # reconnectTimers[m]) =>
              /\ reconnectTimers[m] \notin armed'[m]
              /\ armed'[m] = {reconnectTimers'[m]}]_vars

\* the second handle is stored and is the only one armed
C9_Witness == \E m \in Macs : reconnectTimers[m] = 2 /\ armed[m] = {2}

\* C10: until shutdown() is called, a light that is still a placeholder (no
\* scan has returned it) is not connected, and its reconnect cycle is alive:
\* its timer is armed, or a callback of it waits for a rescan that is in
\* flight or has just settled.
C10_PlaceholderCycle ==
    \A m \in Macs :
        (lights[m].kind = "ph" /\ shut.pc = "no") =>
            /\ ~lights[m].connected
            /\ \/ reconnectTimers[m] # 0 /\ reconnectTimers[m] \in armed[m]
               \/ \E i \in 1..MaxCb :
                     /\ tk[CB(m, i)] = "cbScan"
                     /\ \/ \E j \in DOMAIN scanWaiters :
                              scanWaiters[j] = CB(m, i) /\ scansInFlight = 1
                        \/ \E j \in DOMAIN mq : mq[j].t = CB(m, i)

\* the rescan of a placeholder has just missed it again
C10_Witness ==
    \E m \in Macs :
        /\ lights[m].kind = "ph"
        /\ initPc = "done"
        /\ HeadIs(CB(m, 1))
        /\ m \notin Head(mq).f

\* the last 'status' event shows what getStatus() reports of light m now; a
\* light that has not changed since its record was created counts as shown
\* by the snapshots made before the record existed
StatusShows(m) ==
    \/ lastStatus[m] = Reported[m]
    \/ /\ lastStatus[m].temperature = FALLBACK_TEMPERATURE
       /\ Reported[m] = [connected |-> FALSE,
                         brightness |-> DEFAULT_BRIGHTNESS,
                         temperature |-> DEFAULT_CCT]

\* C11 as stated: every change of the connected flag, the brightness or the
\* temperature of a light is followed by a 'status' event whose snapshot
\* shows it before that light changes again, so a light changes only in a
\* state that the last 'status' event shows.
C11_StatusFollowsChange ==
    [][\A m \in LIGHTS :
          (HasEntry(St, m) /\ Reported'[m] # Reported[m]) => StatusShows(m)]_vars

\* C12: in every reachable state getStatus() returns exactly one entry for
\* every configured light, in the order of the configuration, with the
\* fields of the light's record when it has one; and a step in which
\* getStatus() is called and its result sent changes nothing of the manager:
\* not the table, the timers, the gate, the scan state, the tasks.
C12_GetStatusPure ==
    /\ [](LET L == StatusLights(St)
          IN /\ Len(L) = Cardinality(LIGHTS)
             /\ \A i \in DOMAIN L : L[i].mac \in LIGHTS
             /\ \A i, j \in DOMAIN L : i < j => L[i].mac < L[j].mac
             /\ \A i \in DOMAIN L :
                   HasEntry(St, L[i].mac) =>
                       /\ L[i].connected = lights[L[i].mac].connected
                       /\ L[i].brightness = lights[L[i].mac].bri
                       /\ L[i].temperature = lights[L[i].mac].cct)
    /\ [][events' = << << "reply", 0 >> >> =>
             UNCHANGED << lights, periph, reconnectTimers, armed,
                          activeConnects, connectQueue, pollPaused,
                          activeScanPromise, scansInFlight, scanWaiters,
                          initPc, tk, pollTimer, poll, setc, mq, lastStatus,
                          shut >>]_vars

\* getStatus() has just been called during initialize(), with one light
\* connected and another still a placeholder
C12_Witness ==
    /\ events = << << "reply", 0 >> >>
    /\ initPc = "tasks"
    /\ \E m, n \in LIGHTS : lights[m].kind = "ph" /\ lights[n].connected

\* C13 as stated: once shutdown() has completed, and from then on, no
\* reconnect timer is armed, the poll timer is stopped and no light is
\* connected.
C13_ShutdownQuiet ==
    shut.pc \in {"done", "exited"} =>
        /\ ~pollTimer
        /\ \A m \in Macs : armed[m] = {} /\ ~lights[m].connected

\* the step is the failure of the write that setCCT awaits
WriteFails ==
    /\ setc.pc = "write"
    /\ \/ setc.tgt = All /\ Len(setc'.res) > Len(setc.res)
             /\ ~setc'.res[Len(setc.res) + 1].success
       \/ setc.tgt # All /\ setc'.out = "rejected"

\* C14 as stated: when the write to a connected light fails inside setCCT,
\* the light is not connected after the step and its reconnect timer is
\* armed, and the call reports the failure for that light only.
C14_WriteFailureDemotes ==
    [][WriteFails =>
          /\ ~lights'[setc.i].connected
          /\ armed'[setc.i] # {}
          /\ setc.tgt = All =>
                /\ setc'.res[Len(setc.res) + 1].mac = setc.i
                /\ \A j \in DOMAIN setc'.res :
                      (j > Len(setc.res) + 1) =>
                          setc'.res[j].error # "write failed"]_vars

\* C15: for every integer brightness and temperature given to
\* CommandBuilder.setCCT, in range or not, the brightness byte of the command
\* is min(100, max(0, brightness)), and the temperature byte is the encoding
\* of min(8500, max(3200, temperature)): the byte nearest to its position on
\* the scale of 53 steps per 6300 K that puts 3200 K at 32.
C15_EncodesClamped ==
    setc.cmd # << >> =>
        LET bc == IF setc.b < 0 THEN 0
                  ELSE IF setc.b > 100 THEN 100 ELSE setc.b
            tc == IF setc.c < 3200 THEN 3200
                  ELSE IF setc.c > 8500 THEN 8500 ELSE setc.c
            d == (setc.cmd[5] - 32) * 6300 - (tc - 3200) * 53
        IN /\ setc.cmd[4] = bc
           /\ setc.cmd[5] \in 32..85
           /\ 2 * d <= 6300 /\ 0 - 6300 < 2 * d

\* the command of brightness 150 and temperature 9000 has been built
C15_Witness ==
    /\ setc.b = 150 /\ setc.c = 9000
    /\ setc.cmd # << >>
    /\ setc.cmd[4] = 100 /\ setc.cmd[5] = 77

\* C16: when the command built for a temperature T in 3200..8500 is decoded
\* by parseNotification, the temperature read differs from T by at most one
\* quantization step (6300/53 K), and the brightness read is the clamped
\* brightness.
C16_RoundTrip ==
    (events # << >> /\ events[1] = << "data", 1 >>) =>
        /\ setc.c \in 3200..8500 =>
              /\ (lights[1].cct - setc.c) * 53 <= 6300
              /\ (setc.c - lights[1].cct) * 53 <= 6300
        /\ lights[1].bri = (IF setc.b < 0 THEN 0
                            ELSE IF setc.b > 100 THEN 100 ELSE setc.b)

\* a command whose temperature is not a multiple of the step has been
\* decoded to a neighbouring value
C16_Witness ==
    /\ events # << >> /\ events[1] = << "data", 1 >>
    /\ setc.c = 5000
    /\ lights[1].cct # 5000

\* C17 as stated: a light whose connected flag is true has no armed
\* reconnect timer, whichever connect sequence made it connected; the state
\* is looked at between the turns of the event loop, once the continuations
\* of the step that set the flag have run.
C17_ConnectedNoTimer ==
    \A m \in Macs : (lights[m].connected /\ mq = << >>) => armed[m] = {}

\* poll tick p issues a probe (readStatus reaches its readAsync) in this step
ProbeIssued(p) == poll'[p].pc = "probe" /\ poll'[p] # poll[p]

\* C18 as stated: no probe is issued in a state where a scan is in flight
\* or a connect permit is held, neither by a tick that starts nor by a tick
\* that goes on after a scan or a connect started.
C18_NoProbeWhilePaused ==
    [][\A p \in 1..MaxPoll :
          ProbeIssued(p) => (scansInFlight = 0 /\ activeConnects = 0)]_vars

\* C19 as stated: for no light a probe (a readStatus awaiting its read) and
\* a connect sequence (isBusy set by connect()) are in progress together.
C19_ProbeXorConnect ==
    \A p \in 1..MaxPoll :
        poll[p].pc = "probe" => ~lights[poll[p].i].isBusy

\* task t waits in connectQueue
InQueue(t) == \E j \in DOMAIN connectQueue : connectQueue[j] = t

\* C20: the permits are granted in the order of arrival.  A release takes
\* the caller at the head of connectQueue, the one that has waited longest,
\* and resumes it behind the callers resumed before; a caller gets a permit
\* on arrival only when no caller waits, and a caller that waited gets its
\* permit when it has left the queue and is the first of the resumed.
C20_ArrivalOrder ==
    [][/\ \A t \in Tasks :
             (tk[t] # "acquired" /\ tk'[t] = "acquired") =>
                 /\ ~InQueue(t)
                 /\ tk[t] # "queued" => \A u \in Tasks : tk[u] # "queued"
                 /\ tk[t] = "queued" => HeadIs(t)
       /\ Len(connectQueue') < Len(connectQueue) =>
             /\ connectQueue' = Tail(connectQueue)
             /\ mq' # << >>
             /\ \E j \in DOMAIN mq' :
                   /\ mq'[j].t = Head(connectQueue)
                   /\ \A i \in DOMAIN mq' :
                         (mq'[i].t \in Tasks /\ tk[mq'[i].t] = "queued") =>
                             i <= j]_vars

\* two callers queued, and a release has just resumed the first of them while
\* the second still waits
C20_Witness ==
    \E t, u \in Tasks :
        /\ HeadIs(t) /\ tk[t] = "queued"
        /\ connectQueue = << u >>
        /\ MacOf(t) < MacOf(u)

\* the tasks that hold a permit: from acquireConnectSlot's grant to the
\* release in the finally block of the caller of connectLight
Holders ==
    {t \in Tasks : tk[t] \in {"acquired", "clPreDisc", "clPreWait", "clRace",
                              "clFailDisc", "clRet"}}

\* C21: every permit granted is released exactly once when the guarded
\* connectLight call exits, in the startup tasks and in the reconnect
\* callbacks: the permits in use are those of the callers between their grant
\* and their release, so that activeConnects is 0 once every connect task
\* has ended.
C21_PermitsBalanced == activeConnects = Cardinality(Holders)

\* every task has ended, after a connectLight that returned false and one
\* that returned true, and no permit is in use
C21_Witness ==
    /\ initPc = "done"
    /\ \A t \in Tasks : tk[t] = "none"
    /\ activeConnects = 0
    /\ \E m, n \in LIGHTS :
          /\ lights[m].kind = "real" /\ ~lights[m].connected /\ armed[m] # {}
          /\ lights[n].connected

\* C22: when the shared scan has settled, resolved or rejected, the finally
\* block clears activeScanPromise before any caller runs again: the promise
\* is set only while its scan is in flight or its finally block is next to
\* run, and a caller of getSharedScan that arrives when no scan is in flight
\* starts a fresh scan.
C22_FreshScan ==
    /\ [](activeScanPromise => (scansInFlight = 1 \/ HeadIs(ScanFinTask)))
    /\ [][(Len(scanWaiters') > Len(scanWaiters) /\ scansInFlight = 0) =>
             (scansInFlight' = 1 /\ Len(scanWaiters') = 1)]_vars

\* a rescan is in flight for a placeholder after the startup scan settled,
\* on an adapter that has failed
C22_Witness ==
    /\ initPc = "done"
    /\ scansInFlight = 1
    /\ LIGHTS = {1, 2} /\ faults = 0
    /\ \E m \in LIGHTS : lights[m].kind = "ph" /\ tk[CB(m, 1)] = "cbScan"

\* C23: a scan with targets, once its adapter is on, has its timeout armed
\* and its listener registered until it resolves; it resolves in the step
\* of the discovery event that completes its targets or in the step of its
\* timeout, whichever comes first, with the lights tracked at that moment;
\* and a resolved scan stays resolved with the same result, whatever is
\* discovered or fires later.
C23_ScanResolvesOnce ==
    /\ [](\A k \in 1..MaxScans :
            scanner.scans[k].pc = "run" =>
                scanner.scans[k].timer /\ scanner.scans[k].listening)
    /\ [][\A k \in 1..MaxScans :
             LET a == scanner.scans[k]
                 b == scanner'.scans[k]
                 complete == a.targets \subseteq scanner'.discoveredLights
                 expired == a.timer /\ ~b.timer
             IN /\ (a.pc # "resolved" /\ b.pc = "resolved") =>
                      /\ a.pc = "run"
                      /\ complete \/ expired
                      /\ b.result = scanner'.discoveredLights
                /\ (a.pc = "run" /\ (complete \/ expired)) => b.pc = "resolved"
                /\ a.pc = "resolved" => (b.pc = "resolved" /\ b.result = a.result)
          ]_vars

\* the first scan resolved early with a light that is no target in its
\* result, its timeout is still armed, and the next scan runs
C23_Witness ==
    /\ scanner.scans[1].pc = "resolved"
    /\ scanner.scans[1].timer
    /\ scanner.scans[1].result # scanner.scans[1].targets
    /\ scanner.scans[2].pc = "run"
    /\ scanner.discoveredLights # {}

\* C24: polling is paused exactly while a connect permit is held or the
\* shared scan is in flight, and the pause is lifted only by a step that
\* ends with no permit held and no shared scan in flight.
C24_PausedWhileBusy ==
    /\ [](pollPaused <=> (activeConnects > 0 \/ activeScanPromise))
    /\ [][(pollPaused /\ ~pollPaused') =>
             (activeConnects' = 0 /\ ~activeScanPromise')]_vars

\* the last permit was released while a rescan was in flight: the pause stays
C24_Witness ==
    /\ initPc = "done"
    /\ activeConnects = 0
    /\ activeScanPromise
    /\ pollPaused
    /\ \E m \in LIGHTS : lights[m].connected
    /\ \E m \in LIGHTS : \E id \in 1..MaxCb : tk[CB(m, id)] = "cbScan"

\* C25: the step in which a reconnect timer of a connected device fires
\* only retires that timer; the step in which one fires for a busy device
\* that is not connected retires it and arms a new timer for the device;
\* neither starts a task, takes a permit or starts a scan.
C25_TimerFireGuards ==
    [][\A m \in Macs : \A id \in armed[m] :
         (TimerFire(m, id) /\ (lights[m].connected \/ lights[m].isBusy)) =>
             /\ UNCHANGED << lights, periph, tk, activeConnects, connectQueue,
                             scansInFlight, scanWaiters, activeScanPromise,
                             pollPaused, mq >>
             /\ events' = << >>
             /\ \A n \in Macs \ {m} : armed'[n] = armed[n]
             /\ lights[m].connected =>
                    (armed'[m] = armed[m] \ {id} /\ reconnectTimers'[m] = 0)
             /\ (~lights[m].connected /\ lights[m].isBusy) =>
                    /\ reconnectTimers'[m] # 0
                    /\ armed'[m] = (armed[m] \ {id}) \cup {reconnectTimers'[m]}
      ]_vars

\* a timer is armed for a busy device that is not connected while another
\* timer is armed for a connected device
C25_Witness ==
    \E m, n \in LIGHTS :
        /\ lights[m].isBusy /\ ~lights[m].connected /\ armed[m] # {}
        /\ lights[n].connected /\ armed[n] # {}

\* C26 as stated: whenever connectLight leaves its failure path (the
\* cleanup disconnect has settled and it returns false), the device is not
\* connected and a reconnect timer is armed for it.
C26_FailureLeavesDisconnected ==
    [][\A t \in Tasks :
         (tk[t] = "clFailDisc" /\ tk'[t] = "clRet") =>
             /\ ~lights'[MacOf(t)].connected
             /\ reconnectTimers'[MacOf(t)] # 0
             /\ reconnectTimers'[MacOf(t)] \in armed'[MacOf(t)]
      ]_vars

\* C27: no device is connected and busy at once; a busy device is one that
\* is not connected and has a connect() in progress; and the connected flag
\* goes from false to true only in the step that ends a connect() in
\* progress after its discovery or subscribe, which clears the busy flag.
C27_ConnectedNotBusy ==
    /\ [](\A m \in Macs :
            /\ ~(lights[m].connected /\ lights[m].isBusy)
            /\ lights[m].isBusy => (~lights[m].connected /\ lights[m].cpc # "idle"))
    /\ [][\A m \in Macs :
             (~lights[m].connected /\ lights'[m].connected) =>
                 /\ lights[m].isBusy /\ ~lights'[m].isBusy
                 /\ lights[m].cpc \in {"disc", "sub"}
                 /\ lights'[m].cpc = "idle"]_vars

\* one device has finished its connect() and is connected while the
\* connect() of another is in its second attempt
C27_Witness ==
    \E m, n \in LIGHTS :
        /\ lights[m].connected /\ ~lights[m].isBusy
        /\ lights[n].isBusy /\ ~lights[n].connected /\ lights[n].att = 2

\* C28 as stated: a device whose connected flag is true has a 'disconnect'
\* listener registered on its current handle, so that the next link drop
\* reaches the manager.
C28_ListenerWhileConnected ==
    \A m \in Macs : lights[m].connected => periph[m].h

\* C29 as stated: when initialize() or a reconnect timer callback resumes
\* from a scan that failed, or whose result lacks a device the scan was
\* issued for, that device has a reconnect timer armed at the end of the
\* step.
C29_ScanFailureRetried ==
    [][/\ (HeadIs(InitTask) /\ initPc = "scan" /\ initPc' # "scan") =>
             \A m \in LIGHTS :
                 (Head(mq).r = "err" \/ m \notin Head(mq).f) => armed'[m] # {}
       /\ \A t \in Tasks :
             (/\ HeadIs(t) /\ tk[t] = "cbScan" /\ tk'[t] # "cbScan"
              /\ Head(mq).r = "err" \/ MacOf(t) \notin Head(mq).f) =>
                 armed'[MacOf(t)] # {}
      ]_vars

\* C30: a step of setCCT changes the brightness or the temperature reported
\* for a device only when it resumes from the write to that device and
\* records its success, and then to the values of the call; a step that
\* records a failure for a device (not connected, write failed) or rejects
\* the call leaves what is reported for the device as it was.
C30_StateOnlyOnSuccess ==
    [][setc' # setc =>
         \A m \in LIGHTS :
            LET changed == \/ Reported'[m].brightness # Reported[m].brightness
                           \/ Reported'[m].temperature # Reported[m].temperature
                new == DOMAIN setc'.res \ DOMAIN setc.res
            IN /\ changed =>
                     /\ setc.pc = "write" /\ setc.i = m
                     /\ \E i \in new : setc'.res[i] = Outcome(m, TRUE, "")
                     /\ Reported'[m].brightness = setc.b
                     /\ Reported'[m].temperature = setc.c
               /\ (\E i \in new : setc'.res[i].mac = m /\ ~setc'.res[i].success)
                     => ~changed
               /\ (setc.out # "rejected" /\ setc'.out = "rejected") => ~changed
      ]_vars

\* a finished batch in which the write to one light failed and that light
\* still reports its defaults, while another light reports the new values
C30_Witness ==
    /\ setc.pc = "done"
    /\ \E i, j \in DOMAIN setc.res :
          /\ setc.res[i].error = "write failed"
          /\ Reported[setc.res[i].mac].brightness = DEFAULT_BRIGHTNESS
          /\ Reported[setc.res[i].mac].temperature = DEFAULT_CCT
          /\ setc.res[j].success
          /\ Reported[setc.res[j].mac].brightness = setc.b
          /\ Reported[setc.res[j].mac].temperature = setc.c

\* a reconnect or connect attempt for m is in progress: a startup task or a
\* timer callback of m is running (staggered, scanning, queued at the gate,
\* inside connectLight), or a connect() of m is
Attempting(m) ==
    \/ lights[m].isBusy
    \/ \E t \in Tasks : MacOf(t) = m /\ tk[t] # "none"

\* C31 as stated: between the seeding of the table and shutdown, every
\* device that is not connected has a reconnect timer armed or an attempt
\* in progress.
C31_NoLostRetry ==
    (initPc \in {"tasks", "done"} /\ shut.pc = "no") =>
        \A m \in LIGHTS :
            (HasEntry(St, m) /\ ~lights[m].connected) =>
                (armed[m] # {} \/ Attempting(m))

\* the devices inside NeewerLight.connect()
Connecting == {m \in Macs : lights[m].isBusy}

\* C32 as stated: at most CONNECT_CONCURRENCY devices are inside
\* NeewerLight.connect() at any time.
C32_BusyBound == Cardinality(Connecting) <= CONNECT_CONCURRENCY

\* C33 as stated: every device's reported brightness is within
\* 0..MAX_BRIGHTNESS.
C33_BrightnessRange ==
    \A m \in LIGHTS : Reported[m].brightness \in 0..MAX_BRIGHTNESS

\* C34: every command built by CommandBuilder.setCCT has six bytes, each in
\* 0..255; the first three are the prefix, the CCT mode and 2, and the last
\* is the sum of the first five modulo 256.
C34_FrameFormat ==
    setc.cmd # << >> =>
        /\ Len(setc.cmd) = 6
        /\ \A i \in 1..6 : setc.cmd[i] \in 0..255
        /\ setc.cmd[1] = COMMAND_PREFIX
        /\ setc.cmd[2] = MODE_CCT
        /\ setc.cmd[3] = 2
        /\ setc.cmd[6] = (setc.cmd[1] + setc.cmd[2] + setc.cmd[3]
                            + setc.cmd[4] + setc.cmd[5]) % 256

\* the command of brightness 50 and temperature 5600 has been built: its
\* bytes sum to 359 and its checksum is 103
C34_Witness ==
    /\ setc.b = 50 /\ setc.c = DEFAULT_CCT
    /\ setc.cmd = << COMMAND_PREFIX, MODE_CCT, 2, 50, 52, 103 >>

\* C35 as stated: when the deadline timer of a scan that has already
\* resolved fires, the radio keeps scanning if it was, the scanner's
\* isScanning flag keeps its value and no other scan is touched.
C35_StaleDeadlineHarmless ==
    [][\A k \in 1..MaxScans :
         (/\ scanner.scans[k].pc = "resolved"
          /\ scanner.scans[k].timer /\ ~scanner'.scans[k].timer) =>
             /\ scanner'.radio = scanner.radio
             /\ scanner'.isScanning = scanner.isScanning
             /\ \A j \in 1..MaxScans \ {k} :
                    scanner'.scans[j] = scanner.scans[j]
      ]_vars

\* connectLight called by t returns true in this step
ReturnsTrue(t) ==
    /\ tk[t] # "clRet" /\ tk'[t] = "clRet"
    /\ \E i \in DOMAIN mq' : mq'[i].t = t /\ mq'[i].r = "ok"

\* C36 as stated: in every step in which connectLight returns true the
\* device is connected.
C36_TrueMeansConnected ==
    [][\A t \in Tasks : ReturnsTrue(t) => lights'[MacOf(t)].connected]_vars

\* C37: a timer callback that resumes from a rescan that found its device
\* replaces the record of a device that is neither connected nor busy and
\* has no connect() in progress, also when another callback of the device
\* replaced the record in the same turn of the event loop.
C37_ReplaceOnlyIdle ==
    [][\A t \in Tasks :
         (/\ HeadIs(t) /\ tk[t] = "cbScan"
          /\ Head(mq).r = "ok" /\ MacOf(t) \in Head(mq).f) =>
             /\ ~lights[MacOf(t)].connected
             /\ ~lights[MacOf(t)].isBusy
             /\ lights[MacOf(t)].cpc = "idle"
             /\ lights'[MacOf(t)].kind = "real"
      ]_vars

\* two callbacks of one device resumed from the same rescan: the second has
\* replaced the record the first had put into the table, and both hold a
\* permit
C37_Witness ==
    \E m \in LIGHTS :
        /\ lights[m].kind = "real"
        /\ tk[CB(m, 1)] = "acquired"
        /\ tk[CB(m, 2)] = "acquired"

\* C38 as stated: a device becomes connected only through a connect() that
\* its connectLight is still awaiting; a connect() that lost the race
\* against connectLight's timeout never sets the device connected, so a
\* device for which connectLight returned false stays not connected until
\* a later connect sequence is started.
C38_NoLateConnect ==
    [][\A m \in Macs :
         (~lights[m].connected /\ lights'[m].connected) =>
             lights[m].cw # NoTask]_vars

\* the poll ticks whose liveness probe of light m is in flight
ProbesInFlight(m) == {p \in DOMAIN poll : poll[p].pc = "probe" /\ poll[p].i = m}

\* C39: for each device at most one liveness probe is in flight at any
\* time, also when the probe of an earlier poll tick has not completed when
\* the next tick of the poll interval fires
C39_OneProbePerDevice ==
    \A m \in LIGHTS : Cardinality(ProbesInFlight(m)) <= 1

\* a caller suspended in acquireConnectSlot() whose resolver was called
AboutToResume(t) ==
    tk[t] = "queued" /\ \E i \in DOMAIN mq : mq[i].t = t

\* C40: no lost wake-up in the admission gate: provided every permit holder
\* eventually calls releaseConnectSlot, every caller suspended in
\* acquireConnectSlot eventually resumes and obtains a permit, and
\* connectQueue is empty whenever activeConnects is 0 and no caller is about
\* to resume.  (A suspended caller leaves its suspension only by taking a
\* permit, and again and again no caller is left suspended.)
C40_NoLostWakeup ==
    /\ [](( /\ activeConnects = 0
            /\ \A t \in Tasks : ~AboutToResume(t)) => connectQueue = << >>)
    /\ [][\A t \in Tasks :
            (tk[t] = "queued" /\ tk'[t] # "queued")
                => /\ tk'[t] = "acquired"
                   /\ activeConnects' = activeConnects + 1]_vars
    /\ []<>(\A t \in Tasks : tk[t] # "queued")

\* a queued caller was handed the permit another task released
C40_Witness ==
    \E t \in Tasks :
        /\ AboutToResume(t)
        /\ activeConnects < CONNECT_CONCURRENCY
        /\ \E u \in Tasks : u # t /\ tk[u] \in {"acquired", "clRace"}

====
